---- MODULE Spec2Model ----
(***************************************************************************)
(* The GPU-core thermal cooling device of drivers/thermal/gpucore_cooling.c *)
(* as a state machine: the process-wide id allocator (gpucore_idr) behind   *)
(* the mutex cooling_gpucore_lock, the per-device structure                 *)
(* gpucore_cooling_device, the three governor callbacks and the register /  *)
(* unregister entry points, executed by concurrent kernel threads.          *)
(*                                                                          *)
(* Every step of a thread is one action.  A mutex-protected section is two  *)
(* steps, the acquisition and the section with its unlock; accesses made    *)
(* outside the mutex are steps of their own, so that every interleaving the *)
(* code allows is an interleaving of the model.                             *)
(***************************************************************************)
EXTENDS Integers, FiniteSets, Sequences, TLC

\* ---------------------------------------------------------------- bounds
NumDevs == 2        \* gpucore_cooling_device objects ever allocated in a run
NumThreads == 2     \* concurrent kernel threads
MaxCores == 1       \* largest max_gpu_core_num; requests go one beyond it
MaxIds == 2         \* ids the idr can hold (INT_MAX + 1 in the kernel)
MaxReq == 3         \* set_cur_state calls started in a run
WordBits == 4       \* width of unsigned int / unsigned long (32 on the target)

\* ------------------------------------------------------------- constants
EINVAL == 22

Dev == 1..NumDevs
Thread == 1..NumThreads
NoDev == 0          \* a NULL pointer
NoThread == 0       \* the mutex is free
WordMod == 2^WordBits

\* The STOP bit of a request: the top bit of the word (0x80000000).
GPU_STOP == 2^(WordBits - 1)

\* The values a governor (or a caller of the driver) may pass.
CoreNums == 1..MaxCores
StateVals == 0..(MaxCores + 1)
Requests == StateVals \cup {GPU_STOP + v : v \in StateVals}

\* (state & GPU_STOP) == GPU_STOP
HasStop(state) == (state \div GPU_STOP) % 2 = 1

\* state & (~GPU_STOP)
ClearStop(state) == IF HasStop(state) THEN state - GPU_STOP ELSE state

\* (unsigned int) x : conversion of an int to the word, modulo 2^width
ToUnsigned(x) == x % WordMod

VARIABLES
    gpucore_idr,          \* the set of ids the idr holds
    cooling_gpucore_lock, \* the thread that owns the mutex, or NoThread
    thermal_cdevs,        \* devices the thermal framework has registered
    life,                 \* each device object's stage of life
    id,                   \* gpucore_cooling_device.id
    cool_dev,             \* gpucore_cooling_device.cool_dev is set
    gpucore_state,        \* gpucore_cooling_device.gpucore_state
    max_gpu_core_num,     \* gpucore_cooling_device.max_gpu_core_num
    stop_flag,            \* gpucore_cooling_device.stop_flag
    hw_num,               \* last argument set_max_pp_num received, -1 if none
    unset,                \* writes of gpucore_state by set_cur_state minus
                          \* invocations of set_max_pp_num, per device
    reqs,                 \* set_cur_state calls started so far
    stop_done,            \* a STOP-flagged set_cur_state has returned on the device
    pc,                   \* each thread's position
    op,                   \* the entry point the thread is executing
    cdev,                 \* the device the thread's call is about (NoDev = NULL)
    arg,                  \* set_cur_state: the state argument as passed
    state,                \* set_cur_state: the local variable state / *state of a getter
    ret,                  \* the value the call returns
    call                  \* what the thread's current call has done so far

devVars == <<life, id, cool_dev, gpucore_state, max_gpu_core_num, stop_flag>>
hwVars == <<hw_num, unset, reqs, stop_done>>
thrVars == <<pc, op, cdev, arg, state, ret, call>>
vars == <<gpucore_idr, cooling_gpucore_lock, thermal_cdevs, devVars, hwVars,
          thrVars>>

\* What a call has done: whether it passed the latch check, the value it wrote
\* to gpucore_state (-1: none), how often it invoked the setter and with what,
\* whether it ran alone on a registered, unstopped device, and whether it
\* started after a STOP call had returned.
NoCall == [passed |-> FALSE, wrote |-> -1, sets |-> 0, setarg |-> -1,
           solo |-> FALSE, late |-> FALSE]

Init ==
    /\ gpucore_idr = {}
    /\ cooling_gpucore_lock = NoThread
    /\ thermal_cdevs = {}
    /\ life = [d \in Dev |-> "none"]
    /\ id = [d \in Dev |-> 0]
    /\ cool_dev = [d \in Dev |-> FALSE]
    /\ gpucore_state = [d \in Dev |-> 0]
    /\ max_gpu_core_num = [d \in Dev |-> 0]
    /\ stop_flag = [d \in Dev |-> FALSE]
    /\ hw_num = [d \in Dev |-> -1]
    /\ unset = [d \in Dev |-> 0]
    /\ reqs = 0
    /\ stop_done = [d \in Dev |-> FALSE]
    /\ pc = [t \in Thread |-> "idle"]
    /\ op = [t \in Thread |-> "none"]
    /\ cdev = [t \in Thread |-> NoDev]
    /\ arg = [t \in Thread |-> 0]
    /\ state = [t \in Thread |-> 0]
    /\ ret = [t \in Thread |-> 0]
    /\ call = [t \in Thread |-> NoCall]

\* ------------------------------------------------------------ the idr
\* idr_alloc(idr, NULL, start, 0, GFP_KERNEL): the smallest id >= start that
\* the idr does not hold, or a negative errno when there is none (-ENOSPC).
RECURSIVE IdrScan(_, _)
IdrScan(idr, n) ==
    IF n >= MaxIds THEN -1
    ELSE IF n \notin idr THEN n
    ELSE IdrScan(idr, n + 1)

\* The results idr_alloc may produce: the id found, or a negative errno when
\* the allocation of a layer fails (-ENOMEM).
idr_alloc(idr, start) == {IdrScan(idr, start), -1}

\* idr_remove(idr, id)
idr_remove(idr, i) == idr \ {i}

\* mutex_lock / mutex_unlock on cooling_gpucore_lock
mutex_lock(t) ==
    /\ cooling_gpucore_lock = NoThread
    /\ cooling_gpucore_lock' = t

mutex_unlock(t) ==
    /\ cooling_gpucore_lock = t
    /\ cooling_gpucore_lock' = NoThread

\* A thread in a governor callback on device d (the framework holds d busy).
InCallback(t, d) ==
    /\ cdev[t] = d
    /\ pc[t] \in {"set_lock", "set_check", "set_write", "set_call"}

\* The stages of life in which a device object owns an id of the idr: from
\* get_idr's *id = ret to release_idr's idr_remove.
Holding(d) ==
    life[d] \in {"has_id", "rejected", "visible", "registered", "unregistering"}

\* The stages of life after kfree(gpucore_dev).
Freed(d) == life[d] \in {"freed", "freed_no_id", "freed_rejected"}

\* ------------------------------------------------------- device lifecycle
\* gpucore_cooling_alloc: kzalloc of a zeroed structure; its caller then fills
\* in max_gpu_core_num (and the set_max_pp_num pointer) before registering.
gpucore_cooling_alloc(t, d, m) ==
    /\ pc[t] = "idle"
    /\ life[d] = "none"
    /\ \A e \in Dev : e < d => life[e] # "none"
    /\ life' = [life EXCEPT ![d] = "alloc"]
    /\ id' = [id EXCEPT ![d] = 0]
    /\ cool_dev' = [cool_dev EXCEPT ![d] = FALSE]
    /\ gpucore_state' = [gpucore_state EXCEPT ![d] = 0]
    /\ stop_flag' = [stop_flag EXCEPT ![d] = FALSE]
    /\ max_gpu_core_num' = [max_gpu_core_num EXCEPT ![d] = m]
    /\ UNCHANGED <<gpucore_idr, cooling_gpucore_lock, thermal_cdevs, hwVars, thrVars>>

\* gpucore_cooling_register(gpucore_dev): entry, up to the call of get_idr.
gpucore_cooling_register(t, d) ==
    /\ pc[t] = "idle"
    /\ life[d] = "alloc"
    /\ life' = [life EXCEPT ![d] = "registering"]
    /\ pc' = [pc EXCEPT ![t] = "get_idr_lock"]
    /\ op' = [op EXCEPT ![t] = "register"]
    /\ cdev' = [cdev EXCEPT ![t] = d]
    /\ UNCHANGED <<gpucore_idr, cooling_gpucore_lock, thermal_cdevs, id,
                   cool_dev, gpucore_state, max_gpu_core_num, stop_flag, hwVars, arg, state, ret, call>>

\* get_idr: mutex_lock(&cooling_gpucore_lock)
get_idr_lock(t) ==
    /\ pc[t] = "get_idr_lock"
    /\ mutex_lock(t)
    /\ pc' = [pc EXCEPT ![t] = "get_idr"]
    /\ UNCHANGED <<gpucore_idr, thermal_cdevs, devVars, hwVars,
                   op, cdev, arg, state, ret, call>>

\* get_idr without "*id = ret": the id stays what kzalloc left.
get_idr_id_not_stored(t) ==
    /\ pc[t] = "get_idr"
    /\ mutex_unlock(t)
    /\ \E r \in idr_alloc(gpucore_idr, 0) :
         IF r < 0
         THEN /\ pc' = [pc EXCEPT ![t] = "kfree"]
              /\ life' = [life EXCEPT ![cdev[t]] = "no_id"]
              /\ UNCHANGED <<gpucore_idr, id>>
         ELSE /\ gpucore_idr' = gpucore_idr \cup {r}
              /\ UNCHANGED id
              /\ life' = [life EXCEPT ![cdev[t]] = "has_id"]
              /\ pc' = [pc EXCEPT ![t] = "tcd_register"]
    /\ UNCHANGED <<thermal_cdevs, cool_dev, gpucore_state, max_gpu_core_num,
                   stop_flag, hwVars, op, cdev, arg, state, ret, call>>

\* get_idr with idr_alloc(idr, NULL, 1, 0, GFP_KERNEL): ids start at 1.
get_idr_from_one(t) ==
    /\ pc[t] = "get_idr"
    /\ mutex_unlock(t)
    /\ \E r \in idr_alloc(gpucore_idr, 1) :
         IF r < 0
         THEN /\ pc' = [pc EXCEPT ![t] = "kfree"]
              /\ life' = [life EXCEPT ![cdev[t]] = "no_id"]
              /\ UNCHANGED <<gpucore_idr, id>>
         ELSE /\ gpucore_idr' = gpucore_idr \cup {r}
              /\ id' = [id EXCEPT ![cdev[t]] = r]
              /\ life' = [life EXCEPT ![cdev[t]] = "has_id"]
              /\ pc' = [pc EXCEPT ![t] = "tcd_register"]
    /\ UNCHANGED <<thermal_cdevs, cool_dev, gpucore_state, max_gpu_core_num,
                   stop_flag, hwVars, op, cdev, arg, state, ret, call>>

\* get_idr: ret = idr_alloc(idr, NULL, 0, 0, GFP_KERNEL); mutex_unlock;
\* on ret < 0 return ret (gpucore_cooling_register goes on to kfree),
\* otherwise *id = ret and return 0.
get_idr(t) ==
    /\ pc[t] = "get_idr"
    /\ mutex_unlock(t)
    /\ \E r \in idr_alloc(gpucore_idr, 0) :
         IF r < 0
         THEN /\ pc' = [pc EXCEPT ![t] = "kfree"]
              /\ life' = [life EXCEPT ![cdev[t]] = "no_id"]
              /\ UNCHANGED <<gpucore_idr, id>>
         ELSE /\ gpucore_idr' = gpucore_idr \cup {r}
              /\ id' = [id EXCEPT ![cdev[t]] = r]
              /\ life' = [life EXCEPT ![cdev[t]] = "has_id"]
              /\ pc' = [pc EXCEPT ![t] = "tcd_register"]
    /\ UNCHANGED <<thermal_cdevs, cool_dev, gpucore_state, max_gpu_core_num,
                   stop_flag, hwVars, op, cdev, arg, state, ret, call>>

\* gpucore_cooling_register whose !cool_dev branch forgets release_idr and
\* goes straight to kfree.
thermal_cooling_device_register_no_release(t) ==
    /\ pc[t] = "tcd_register"
    /\ \E ok \in BOOLEAN :
         IF ok
         THEN /\ thermal_cdevs' = thermal_cdevs \cup {cdev[t]}
              /\ life' = [life EXCEPT ![cdev[t]] = "visible"]
              /\ pc' = [pc EXCEPT ![t] = "reg_finish"]
         ELSE /\ life' = [life EXCEPT ![cdev[t]] = "rolled_back"]
              /\ pc' = [pc EXCEPT ![t] = "kfree"]
              /\ UNCHANGED thermal_cdevs
    /\ UNCHANGED <<gpucore_idr, cooling_gpucore_lock, id, cool_dev,
                   gpucore_state, max_gpu_core_num, stop_flag, hwVars,
                   op, cdev, arg, state, ret, call>>

\* thermal_cooling_device_register(dev_name, gpucore_dev, &gpucore_cooling_ops):
\* the framework either binds the device, after which the governor may invoke
\* the callbacks, or rejects it (returns NULL).
thermal_cooling_device_register(t) ==
    /\ pc[t] = "tcd_register"
    /\ \E ok \in BOOLEAN :
         IF ok
         THEN /\ thermal_cdevs' = thermal_cdevs \cup {cdev[t]}
              /\ life' = [life EXCEPT ![cdev[t]] = "visible"]
              /\ pc' = [pc EXCEPT ![t] = "reg_finish"]
         ELSE /\ life' = [life EXCEPT ![cdev[t]] = "rejected"]
              /\ pc' = [pc EXCEPT ![t] = "release_idr_lock"]
              /\ UNCHANGED thermal_cdevs
    /\ UNCHANGED <<gpucore_idr, cooling_gpucore_lock, id, cool_dev,
                   gpucore_state, max_gpu_core_num, stop_flag, hwVars,
                   op, cdev, arg, state, ret, call>>

\* gpucore_cooling_register that also clears stop_flag when it initialises
\* gpucore_state.
gpucore_cooling_register_finish_clears_stop(t) ==
    /\ pc[t] = "reg_finish"
    /\ cool_dev' = [cool_dev EXCEPT ![cdev[t]] = TRUE]
    /\ gpucore_state' = [gpucore_state EXCEPT ![cdev[t]] = 0]
    /\ stop_flag' = [stop_flag EXCEPT ![cdev[t]] = FALSE]
    /\ life' = [life EXCEPT ![cdev[t]] = "registered"]
    /\ ret' = [ret EXCEPT ![t] = 0]
    /\ pc' = [pc EXCEPT ![t] = "reg_ret"]
    /\ UNCHANGED <<gpucore_idr, cooling_gpucore_lock, thermal_cdevs, id,
                   max_gpu_core_num, hwVars, op, cdev, arg, state, call>>

\* gpucore_cooling_register, success: gpucore_dev->cool_dev = cool_dev;
\* gpucore_dev->gpucore_state = 0; return 0.
gpucore_cooling_register_finish(t) ==
    /\ pc[t] = "reg_finish"
    /\ cool_dev' = [cool_dev EXCEPT ![cdev[t]] = TRUE]
    /\ gpucore_state' = [gpucore_state EXCEPT ![cdev[t]] = 0]
    /\ life' = [life EXCEPT ![cdev[t]] = "registered"]
    /\ ret' = [ret EXCEPT ![t] = 0]
    /\ pc' = [pc EXCEPT ![t] = "reg_ret"]
    /\ UNCHANGED <<gpucore_idr, cooling_gpucore_lock, thermal_cdevs, id,
                   max_gpu_core_num, stop_flag, hwVars, op, cdev, arg, state,
                   call>>

\* release_idr: mutex_lock(&cooling_gpucore_lock)
release_idr_lock(t) ==
    /\ pc[t] = "release_idr_lock"
    /\ mutex_lock(t)
    /\ pc' = [pc EXCEPT ![t] = "release_idr"]
    /\ UNCHANGED <<gpucore_idr, thermal_cdevs, devVars, hwVars,
                   op, cdev, arg, state, ret, call>>

\* release_idr: idr_remove(idr, id); mutex_unlock.  Both callers go on to
\* kfree(gpucore_dev).
release_idr(t) ==
    /\ pc[t] = "release_idr"
    /\ gpucore_idr' = idr_remove(gpucore_idr, id[cdev[t]])
    /\ mutex_unlock(t)
    /\ life' = [life EXCEPT ![cdev[t]] =
                 IF op[t] = "register" THEN "rolled_back" ELSE "released"]
    /\ pc' = [pc EXCEPT ![t] = "kfree"]
    /\ UNCHANGED <<thermal_cdevs, id, cool_dev, gpucore_state,
                   max_gpu_core_num, stop_flag, hwVars,
                   op, cdev, arg, state, ret, call>>

\* kfree(gpucore_dev), then the return of the entry point: ERR_PTR(-EINVAL)
\* from gpucore_cooling_register, nothing from gpucore_cooling_unregister.
\* The object is gone: its fields, and what was recorded of its hardware,
\* read as those of a fresh object from here on.
kfree(t) ==
    /\ pc[t] = "kfree"
    /\ life' = [life EXCEPT ![cdev[t]] =
                 IF life[cdev[t]] = "no_id" THEN "freed_no_id"
                 ELSE IF life[cdev[t]] = "rolled_back" THEN "freed_rejected"
                 ELSE "freed"]
    /\ IF op[t] = "register"
       THEN /\ ret' = [ret EXCEPT ![t] = -EINVAL]
            /\ pc' = [pc EXCEPT ![t] = "reg_ret"]
       ELSE /\ pc' = [pc EXCEPT ![t] = "unreg_ret"]
            /\ UNCHANGED ret
    /\ id' = [id EXCEPT ![cdev[t]] = 0]
    /\ cool_dev' = [cool_dev EXCEPT ![cdev[t]] = FALSE]
    /\ gpucore_state' = [gpucore_state EXCEPT ![cdev[t]] = 0]
    /\ max_gpu_core_num' = [max_gpu_core_num EXCEPT ![cdev[t]] = 0]
    /\ stop_flag' = [stop_flag EXCEPT ![cdev[t]] = FALSE]
    /\ hw_num' = [hw_num EXCEPT ![cdev[t]] = -1]
    /\ stop_done' = [stop_done EXCEPT ![cdev[t]] = FALSE]
    /\ UNCHANGED <<gpucore_idr, cooling_gpucore_lock, thermal_cdevs, unset,
                   reqs, op, cdev, arg, state, call>>

\* gpucore_cooling_unregister(cdev): if (!cdev) return; otherwise go on to
\* thermal_cooling_device_unregister.  The caller passes NULL or the handle of
\* a registered device.
gpucore_cooling_unregister(t, c) ==
    /\ pc[t] = "idle"
    /\ c = NoDev \/ (c \in Dev /\ life[c] = "registered")
    /\ op' = [op EXCEPT ![t] = "unregister"]
    /\ cdev' = [cdev EXCEPT ![t] = c]
    /\ IF c = NoDev
       THEN /\ pc' = [pc EXCEPT ![t] = "unreg_ret"]
            /\ UNCHANGED life
       ELSE /\ pc' = [pc EXCEPT ![t] = "tcd_unregister"]
            /\ life' = [life EXCEPT ![c] = "unregistering"]
    /\ UNCHANGED <<gpucore_idr, cooling_gpucore_lock, thermal_cdevs, id,
                   cool_dev, gpucore_state, max_gpu_core_num, stop_flag, hwVars, arg, state, ret, call>>

\* thermal_cooling_device_unregister(gpucore_dev->cool_dev): the framework
\* detaches the device once no callback is running on it; no callback starts
\* on it afterwards.
thermal_cooling_device_unregister(t) ==
    /\ pc[t] = "tcd_unregister"
    /\ \A u \in Thread : ~InCallback(u, cdev[t])
    /\ thermal_cdevs' = thermal_cdevs \ {cdev[t]}
    /\ pc' = [pc EXCEPT ![t] = "release_idr_lock"]
    /\ UNCHANGED <<gpucore_idr, cooling_gpucore_lock, devVars, hwVars,
                   op, cdev, arg, state, ret, call>>

\* The entry point has returned; the thread is free for its next call.
call_return(t) ==
    /\ pc[t] \in {"reg_ret", "unreg_ret", "get_ret", "set_ret"}
    /\ pc' = [pc EXCEPT ![t] = "idle"]
    /\ op' = [op EXCEPT ![t] = "none"]
    /\ cdev' = [cdev EXCEPT ![t] = NoDev]
    /\ arg' = [arg EXCEPT ![t] = 0]
    /\ state' = [state EXCEPT ![t] = 0]
    /\ ret' = [ret EXCEPT ![t] = 0]
    /\ call' = [call EXCEPT ![t] = NoCall]
    /\ UNCHANGED <<gpucore_idr, cooling_gpucore_lock, thermal_cdevs, devVars,
                   hwVars>>

\* ------------------------------------------------------ governor callbacks
\* A get_max_state that reports the current state, as get_cur_state does.
gpucore_get_max_state_reads_cur(t, d) ==
    /\ pc[t] = "idle"
    /\ d \in thermal_cdevs
    /\ op' = [op EXCEPT ![t] = "get_max"]
    /\ cdev' = [cdev EXCEPT ![t] = d]
    /\ state' = [state EXCEPT ![t] = gpucore_state[d]]
    /\ ret' = [ret EXCEPT ![t] = 0]
    /\ pc' = [pc EXCEPT ![t] = "get_ret"]
    /\ UNCHANGED <<gpucore_idr, cooling_gpucore_lock, thermal_cdevs, devVars,
                   hwVars, arg, call>>

\* gpucore_get_max_state: *state = gpucore_device->max_gpu_core_num; return 0.
gpucore_get_max_state(t, d) ==
    /\ pc[t] = "idle"
    /\ d \in thermal_cdevs
    /\ op' = [op EXCEPT ![t] = "get_max"]
    /\ cdev' = [cdev EXCEPT ![t] = d]
    /\ state' = [state EXCEPT ![t] = max_gpu_core_num[d]]
    /\ ret' = [ret EXCEPT ![t] = 0]
    /\ pc' = [pc EXCEPT ![t] = "get_ret"]
    /\ UNCHANGED <<gpucore_idr, cooling_gpucore_lock, thermal_cdevs, devVars,
                   hwVars, arg, call>>

\* gpucore_get_cur_state: *state = gpucore_device->gpucore_state; return 0.
gpucore_get_cur_state(t, d) ==
    /\ pc[t] = "idle"
    /\ d \in thermal_cdevs
    /\ op' = [op EXCEPT ![t] = "get_cur"]
    /\ cdev' = [cdev EXCEPT ![t] = d]
    /\ state' = [state EXCEPT ![t] = gpucore_state[d]]
    /\ ret' = [ret EXCEPT ![t] = 0]
    /\ pc' = [pc EXCEPT ![t] = "get_ret"]
    /\ UNCHANGED <<gpucore_idr, cooling_gpucore_lock, thermal_cdevs, devVars,
                   hwVars, arg, call>>

\* gpucore_set_cur_state(cdev, state): entry, up to mutex_lock.  The call
\* runs alone when no other set_cur_state is in flight on a device whose
\* registration has returned; a call that starts ends the solitude of the
\* calls that came before it on the device.
gpucore_set_cur_state(t, d, a) ==
    /\ pc[t] = "idle"
    /\ d \in thermal_cdevs
    /\ reqs < MaxReq
    /\ reqs' = reqs + 1
    /\ op' = [op EXCEPT ![t] = "set_cur"]
    /\ cdev' = [cdev EXCEPT ![t] = d]
    /\ arg' = [arg EXCEPT ![t] = a]
    /\ state' = [state EXCEPT ![t] = a]
    /\ pc' = [pc EXCEPT ![t] = "set_lock"]
    /\ call' = [u \in Thread |->
                 IF u = t
                 THEN [NoCall EXCEPT
                         !.solo = /\ life[d] = "registered"
                                  /\ ~stop_flag[d]
                                  /\ \A w \in Thread \ {t} : ~InCallback(w, d),
                         !.late = stop_done[d]]
                 ELSE IF cdev[u] = d /\ op[u] = "set_cur"
                 THEN [call[u] EXCEPT !.solo = FALSE]
                 ELSE call[u]]
    /\ UNCHANGED <<gpucore_idr, cooling_gpucore_lock, thermal_cdevs, devVars,
                   hw_num, unset, stop_done, ret>>

\* gpucore_set_cur_state: mutex_lock(&cooling_gpucore_lock)
gpucore_set_cur_state_lock(t) ==
    /\ pc[t] = "set_lock"
    /\ mutex_lock(t)
    /\ pc' = [pc EXCEPT ![t] = "set_check"]
    /\ UNCHANGED <<gpucore_idr, thermal_cdevs, devVars, hwVars,
                   op, cdev, arg, state, ret, call>>

\* The section under the mutex without the test of stop_flag.
gpucore_set_cur_state_check_no_latch(t) ==
    /\ pc[t] = "set_check"
    /\ mutex_unlock(t)
    /\ IF HasStop(state[t])
       THEN /\ stop_flag' = [stop_flag EXCEPT ![cdev[t]] = TRUE]
            /\ state' = [state EXCEPT ![t] = ClearStop(state[t])]
       ELSE UNCHANGED <<stop_flag, state>>
    /\ call' = [call EXCEPT ![t].passed = TRUE]
    /\ pc' = [pc EXCEPT ![t] = "set_write"]
    /\ UNCHANGED <<ret, stop_done>>
    /\ UNCHANGED <<gpucore_idr, thermal_cdevs, life, id, cool_dev,
                   gpucore_state, max_gpu_core_num, hw_num, unset, reqs,
                   op, cdev, arg>>

\* The section under the mutex without "state = state & (~GPU_STOP)".
gpucore_set_cur_state_check_no_strip(t) ==
    /\ pc[t] = "set_check"
    /\ mutex_unlock(t)
    /\ IF stop_flag[cdev[t]]
       THEN /\ ret' = [ret EXCEPT ![t] = 0]
            /\ pc' = [pc EXCEPT ![t] = "set_ret"]
            /\ stop_done' = [stop_done EXCEPT ![cdev[t]] = @ \/ HasStop(arg[t])]
            /\ UNCHANGED <<stop_flag, state, call>>
       ELSE /\ IF HasStop(state[t])
               THEN stop_flag' = [stop_flag EXCEPT ![cdev[t]] = TRUE]
               ELSE UNCHANGED stop_flag
            /\ UNCHANGED state
            /\ call' = [call EXCEPT ![t].passed = TRUE]
            /\ pc' = [pc EXCEPT ![t] = "set_write"]
            /\ UNCHANGED <<ret, stop_done>>
    /\ UNCHANGED <<gpucore_idr, thermal_cdevs, life, id, cool_dev,
                   gpucore_state, max_gpu_core_num, hw_num, unset, reqs,
                   op, cdev, arg>>

\* The section under the mutex with the test of stop_flag applied only to
\* requests that do not carry GPU_STOP.
gpucore_set_cur_state_check_stop_passes(t) ==
    /\ pc[t] = "set_check"
    /\ mutex_unlock(t)
    /\ IF stop_flag[cdev[t]] /\ ~HasStop(state[t])
       THEN /\ ret' = [ret EXCEPT ![t] = 0]
            /\ pc' = [pc EXCEPT ![t] = "set_ret"]
            /\ UNCHANGED <<stop_flag, state, call, stop_done>>
       ELSE /\ IF HasStop(state[t])
               THEN /\ stop_flag' = [stop_flag EXCEPT ![cdev[t]] = TRUE]
                    /\ state' = [state EXCEPT ![t] = ClearStop(state[t])]
               ELSE UNCHANGED <<stop_flag, state>>
            /\ call' = [call EXCEPT ![t].passed = TRUE]
            /\ pc' = [pc EXCEPT ![t] = "set_write"]
            /\ UNCHANGED <<ret, stop_done>>
    /\ UNCHANGED <<gpucore_idr, thermal_cdevs, life, id, cool_dev,
                   gpucore_state, max_gpu_core_num, hw_num, unset, reqs,
                   op, cdev, arg>>

\* The section under the mutex with the early return of a stopped device
\* leaving without mutex_unlock.
gpucore_set_cur_state_check_return_locked(t) ==
    /\ pc[t] = "set_check"
    /\ IF stop_flag[cdev[t]]
       THEN /\ UNCHANGED cooling_gpucore_lock
            /\ ret' = [ret EXCEPT ![t] = 0]
            /\ pc' = [pc EXCEPT ![t] = "set_ret"]
            /\ stop_done' = [stop_done EXCEPT ![cdev[t]] = @ \/ HasStop(arg[t])]
            /\ UNCHANGED <<stop_flag, state, call>>
       ELSE /\ mutex_unlock(t)
            /\ IF HasStop(state[t])
               THEN /\ stop_flag' = [stop_flag EXCEPT ![cdev[t]] = TRUE]
                    /\ state' = [state EXCEPT ![t] = ClearStop(state[t])]
               ELSE UNCHANGED <<stop_flag, state>>
            /\ call' = [call EXCEPT ![t].passed = TRUE]
            /\ pc' = [pc EXCEPT ![t] = "set_write"]
            /\ UNCHANGED <<ret, stop_done>>
    /\ UNCHANGED <<gpucore_idr, thermal_cdevs, life, id, cool_dev,
                   gpucore_state, max_gpu_core_num, hw_num, unset, reqs,
                   op, cdev, arg>>

\* The section under the mutex with the final mutex_unlock left out: only
\* the early return of a stopped device releases the mutex.
gpucore_set_cur_state_check_keeps_lock(t) ==
    /\ pc[t] = "set_check"
    /\ IF stop_flag[cdev[t]]
       THEN /\ mutex_unlock(t)
            /\ ret' = [ret EXCEPT ![t] = 0]
            /\ pc' = [pc EXCEPT ![t] = "set_ret"]
            /\ stop_done' = [stop_done EXCEPT ![cdev[t]] = @ \/ HasStop(arg[t])]
            /\ UNCHANGED <<stop_flag, state, call>>
       ELSE /\ UNCHANGED cooling_gpucore_lock
            /\ IF HasStop(state[t])
               THEN /\ stop_flag' = [stop_flag EXCEPT ![cdev[t]] = TRUE]
                    /\ state' = [state EXCEPT ![t] = ClearStop(state[t])]
               ELSE UNCHANGED <<stop_flag, state>>
            /\ call' = [call EXCEPT ![t].passed = TRUE]
            /\ pc' = [pc EXCEPT ![t] = "set_write"]
            /\ UNCHANGED <<ret, stop_done>>
    /\ UNCHANGED <<gpucore_idr, thermal_cdevs, life, id, cool_dev,
                   gpucore_state, max_gpu_core_num, hw_num, unset, reqs,
                   op, cdev, arg>>

\* gpucore_set_cur_state, the section under the mutex:
\*   if (stop_flag) { mutex_unlock; return 0; }
\*   if ((state & GPU_STOP) == GPU_STOP) { stop_flag = 1; state &= ~GPU_STOP; }
\*   mutex_unlock;
gpucore_set_cur_state_check(t) ==
    /\ pc[t] = "set_check"
    /\ mutex_unlock(t)
    /\ IF stop_flag[cdev[t]]
       THEN /\ ret' = [ret EXCEPT ![t] = 0]
            /\ pc' = [pc EXCEPT ![t] = "set_ret"]
            /\ stop_done' = [stop_done EXCEPT ![cdev[t]] = @ \/ HasStop(arg[t])]
            /\ UNCHANGED <<stop_flag, state, call>>
       ELSE /\ IF HasStop(state[t])
               THEN /\ stop_flag' = [stop_flag EXCEPT ![cdev[t]] = TRUE]
                    /\ state' = [state EXCEPT ![t] = ClearStop(state[t])]
               ELSE UNCHANGED <<stop_flag, state>>
            /\ call' = [call EXCEPT ![t].passed = TRUE]
            /\ pc' = [pc EXCEPT ![t] = "set_write"]
            /\ UNCHANGED <<ret, stop_done>>
    /\ UNCHANGED <<gpucore_idr, thermal_cdevs, life, id, cool_dev,
                   gpucore_state, max_gpu_core_num, hw_num, unset, reqs,
                   op, cdev, arg>>

\* The write with the state kept in one place for all the devices the
\* framework knows.
gpucore_set_cur_state_write_shared(t) ==
    /\ pc[t] = "set_write"
    /\ gpucore_state' = [d \in Dev |-> IF d \in thermal_cdevs
                                        THEN ToUnsigned(state[t])
                                        ELSE gpucore_state[d]]
    /\ unset' = [unset EXCEPT ![cdev[t]] = @ + 1]
    /\ call' = [call EXCEPT ![t].wrote = ToUnsigned(state[t])]
    /\ pc' = [pc EXCEPT ![t] = "set_call"]
    /\ UNCHANGED <<gpucore_idr, cooling_gpucore_lock, thermal_cdevs, life, id,
                   cool_dev, max_gpu_core_num, stop_flag, hw_num, reqs,
                   stop_done, op, cdev, arg, state, ret>>

\* gpucore_set_cur_state, after the unlock:
\*   gpucore_device->gpucore_state = state;
gpucore_set_cur_state_write(t) ==
    /\ pc[t] = "set_write"
    /\ gpucore_state' = [gpucore_state EXCEPT ![cdev[t]] = ToUnsigned(state[t])]
    /\ unset' = [unset EXCEPT ![cdev[t]] = @ + 1]
    /\ call' = [call EXCEPT ![t].wrote = ToUnsigned(state[t])]
    /\ pc' = [pc EXCEPT ![t] = "set_call"]
    /\ UNCHANGED <<gpucore_idr, cooling_gpucore_lock, thermal_cdevs, life, id,
                   cool_dev, max_gpu_core_num, stop_flag, hw_num, reqs,
                   stop_done, op, cdev, arg, state, ret>>

\* set_max_num with the operands exchanged.
set_max_num_swapped(t) == state[t] - max_gpu_core_num[cdev[t]]

\* set_max_num computed from the shared field instead of the local state.
set_max_num_from_field(t) ==
    max_gpu_core_num[cdev[t]] - gpucore_state[cdev[t]]

\* set_max_num = gpucore_device->max_gpu_core_num - state, as an int
set_max_num(t) == max_gpu_core_num[cdev[t]] - state[t]

\* gpucore_set_cur_state, the end:
\*   set_max_num = max_gpu_core_num - state;
\*   set_max_pp_num((unsigned int)set_max_num); return 0;
gpucore_set_cur_state_call(t) ==
    /\ pc[t] = "set_call"
    /\ hw_num' = [hw_num EXCEPT ![cdev[t]] = ToUnsigned(set_max_num(t))]
    /\ unset' = [unset EXCEPT ![cdev[t]] = @ - 1]
    /\ call' = [call EXCEPT ![t].sets = @ + 1,
                            ![t].setarg = ToUnsigned(set_max_num(t))]
    /\ stop_done' = [stop_done EXCEPT ![cdev[t]] = @ \/ HasStop(arg[t])]
    /\ ret' = [ret EXCEPT ![t] = 0]
    /\ pc' = [pc EXCEPT ![t] = "set_ret"]
    /\ UNCHANGED <<gpucore_idr, cooling_gpucore_lock, thermal_cdevs, devVars,
                   reqs, op, cdev, arg, state>>

\* ----------------------------------------------------------- the system
Next ==
    \E t \in Thread :
        \/ \E d \in Dev, m \in CoreNums : gpucore_cooling_alloc(t, d, m)
        \/ \E d \in Dev : gpucore_cooling_register(t, d)
        \/ get_idr_lock(t)
        \/ get_idr(t)
        \/ thermal_cooling_device_register(t)
        \/ gpucore_cooling_register_finish(t)
        \/ release_idr_lock(t)
        \/ release_idr(t)
        \/ kfree(t)
        \/ \E c \in Dev \cup {NoDev} : gpucore_cooling_unregister(t, c)
        \/ thermal_cooling_device_unregister(t)
        \/ \E d \in Dev : gpucore_get_max_state(t, d)
        \/ \E d \in Dev : gpucore_get_cur_state(t, d)
        \/ \E d \in Dev, a \in Requests : gpucore_set_cur_state(t, d, a)
        \/ gpucore_set_cur_state_lock(t)
        \/ gpucore_set_cur_state_check(t)
        \/ gpucore_set_cur_state_write(t)
        \/ gpucore_set_cur_state_call(t)
        \/ call_return(t)

Spec == Init /\ [][Next]_vars

\* ---------------------------------------------------------- scheduling
\* The steps of thread t inside a call it has entered: everything but the
\* entries themselves, which the callers are free never to make.
ThreadStep(t) ==
    \/ get_idr_lock(t)
    \/ get_idr(t)
    \/ thermal_cooling_device_register(t)
    \/ gpucore_cooling_register_finish(t)
    \/ release_idr_lock(t)
    \/ release_idr(t)
    \/ kfree(t)
    \/ thermal_cooling_device_unregister(t)
    \/ gpucore_set_cur_state_lock(t)
    \/ gpucore_set_cur_state_check(t)
    \/ gpucore_set_cur_state_write(t)
    \/ gpucore_set_cur_state_call(t)
    \/ call_return(t)

\* The calls that take cooling_gpucore_lock or wait for one another:
\* registrations, unregistrations and gpucore_set_cur_state with and without
\* GPU_STOP.  The getters take no lock and nothing waits for them.
NextLocking ==
    \E t \in Thread :
        \/ \E d \in Dev, m \in CoreNums : gpucore_cooling_alloc(t, d, m)
        \/ \E d \in Dev : gpucore_cooling_register(t, d)
        \/ \E c \in Dev \cup {NoDev} : gpucore_cooling_unregister(t, c)
        \/ \E d \in Dev, a \in {0, GPU_STOP} :
               gpucore_set_cur_state(t, d, a)
        \/ ThreadStep(t)

\* The driver under a scheduler that lets every thread run that can take a
\* step, with a set_max_pp_num that returns.
FairSpec ==
    Init /\ [][NextLocking]_vars /\ \A t \in Thread : WF_vars(ThreadStep(t))

\* ------------------------------------------- a handle unregistered twice
\* gpucore_cooling_unregister(cdev) called again with the handle of a device
\* that an earlier call already unregistered.  The handle is not NULL, so the
\* test of line 230 passes and the code goes on as for a registered device:
\* it reads cdev->devdata and gpucore_dev->id from freed memory.  The id read
\* there, i, is whatever that memory holds by now: the id the device had, or
\* any other value.
gpucore_cooling_unregister_again(t, c, i) ==
    /\ pc[t] = "idle"
    /\ c \in Dev /\ life[c] = "freed"
    /\ op' = [op EXCEPT ![t] = "unregister_again"]
    /\ cdev' = [cdev EXCEPT ![t] = c]
    /\ life' = [life EXCEPT ![c] = "unregistering_again"]
    /\ id' = [id EXCEPT ![c] = i]
    /\ pc' = [pc EXCEPT ![t] = "tcd_unregister"]
    /\ UNCHANGED <<gpucore_idr, cooling_gpucore_lock, thermal_cdevs,
                   cool_dev, gpucore_state, max_gpu_core_num, stop_flag,
                   hwVars, arg, state, ret, call>>

\* The callers of Next, and callers that unregister a handle a second time.
NextMisuse ==
    \/ Next
    \/ \E t \in Thread, c \in Dev, i \in 0..(MaxIds - 1) :
           gpucore_cooling_unregister_again(t, c, i)

SpecMisuse == Init /\ [][NextMisuse]_vars

\* ------------------------------------------------------------ properties

\* C1: a set_cur_state(n) without the STOP bit, 0 <= n <= max_gpu_core_num,
\* that ran alone on a registered device that was not stopped has returned 0,
\* gpucore_state (what get_cur_state reads) is n, and the call invoked
\* set_max_pp_num once, with max_gpu_core_num - n, the hardware's last value.
RequestStateSetsState ==
    \A t \in Thread :
        ( /\ pc[t] = "set_ret"
          /\ call[t].solo
          /\ ~HasStop(arg[t])
          /\ life[cdev[t]] = "registered"
          /\ arg[t] <= max_gpu_core_num[cdev[t]] )
        => /\ ret[t] = 0
           /\ gpucore_state[cdev[t]] = arg[t]
           /\ call[t].sets = 1
           /\ call[t].setarg = max_gpu_core_num[cdev[t]] - arg[t]
           /\ hw_num[cdev[t]] = max_gpu_core_num[cdev[t]] - arg[t]

\* A solitary request of state 1 on a one-core device has returned: the state
\* reads 1 and the hardware was told to keep 0 cores.
RequestStateSetsStateWitness ==
    \E t \in Thread :
        /\ pc[t] = "set_ret"
        /\ call[t].solo
        /\ arg[t] = 1
        /\ life[cdev[t]] = "registered"
        /\ max_gpu_core_num[cdev[t]] = 1
        /\ gpucore_state[cdev[t]] = 1
        /\ hw_num[cdev[t]] = 0

\* C2: a set_cur_state call that started after a STOP-flagged call had
\* returned on its device never passes the latch check, never writes
\* gpucore_state, never invokes set_max_pp_num, and returns 0.
LatchedRequestsAreDiscarded ==
    \A t \in Thread :
        (op[t] = "set_cur" /\ call[t].late)
        => /\ pc[t] \in {"set_lock", "set_check", "set_ret"}
           /\ ~call[t].passed
           /\ call[t].wrote = -1
           /\ call[t].sets = 0
           /\ (pc[t] = "set_ret" => ret[t] = 0)

\* A request without the STOP bit, for a state other than the frozen one, has
\* returned on a device that a STOP call had latched before it started.
LatchedRequestsAreDiscardedWitness ==
    \E t \in Thread :
        /\ pc[t] = "set_ret"
        /\ call[t].late
        /\ ~HasStop(arg[t])
        /\ ~Freed(cdev[t])
        /\ stop_flag[cdev[t]]
        /\ arg[t] # gpucore_state[cdev[t]]

\* C3: no step takes stop_flag of a device from true to false while the
\* device object exists (kfree ends its life).
StopLatchIsSticky ==
    [][\A d \in Dev : (stop_flag[d] /\ ~Freed(d)') => stop_flag'[d]]_vars

\* The latch is set and a later request of either kind, a getter and the
\* registration of another device have all had their turn.
StopLatchIsStickyWitness ==
    \E d \in Dev, t \in Thread :
        /\ stop_flag[d]
        /\ life[d] = "registered"
        /\ cdev[t] = d
        /\ pc[t] = "set_ret"
        /\ call[t].late
        /\ \E e \in Dev \ {d} : life[e] = "registered"

\* C4: a STOP-flagged set_cur_state that passed the latch check has set
\* stop_flag, holds the argument without the STOP bit as its state, writes
\* that value to gpucore_state, and by its return has invoked set_max_pp_num
\* exactly once, with (unsigned int)(max_gpu_core_num - that value).
StopRequestLatchesAndRecords ==
    \A t \in Thread :
        (op[t] = "set_cur" /\ HasStop(arg[t]) /\ call[t].passed /\ ~Freed(cdev[t]))
        => LET d == cdev[t]
               v == arg[t] - GPU_STOP
           IN  /\ stop_flag[d]
               /\ state[t] = v
               /\ (pc[t] = "set_write" => call[t].wrote = -1)
               /\ (pc[t] \in {"set_call", "set_ret"} => call[t].wrote = v)
               /\ (pc[t] # "set_ret" => call[t].sets = 0)
               /\ (pc[t] = "set_ret" =>
                     /\ call[t].sets = 1
                     /\ call[t].setarg = ToUnsigned(max_gpu_core_num[d] - v)
                     /\ (v <= max_gpu_core_num[d] =>
                           call[t].setarg = max_gpu_core_num[d] - v))

\* STOP|1 has returned on a one-core device that was not stopped: the device
\* is latched, its state reads 1 and the hardware was told to keep 0 cores.
StopRequestLatchesAndRecordsWitness ==
    \E t \in Thread :
        /\ pc[t] = "set_ret"
        /\ arg[t] = GPU_STOP + 1
        /\ call[t].passed
        /\ max_gpu_core_num[cdev[t]] = 1
        /\ stop_flag[cdev[t]]
        /\ gpucore_state[cdev[t]] = 1
        /\ hw_num[cdev[t]] = 0
        /\ call[t].sets = 1

\* C5: set_cur_state is one atomic unit per device: while one call is between
\* its latch check and its invocation of set_max_pp_num, no other call on the
\* same device is past its own latch check with its write or its invocation
\* still to come.
RequestStateIsAtomic ==
    \A t, u \in Thread :
        (t # u /\ cdev[t] = cdev[u])
        => ~( /\ pc[t] \in {"set_write", "set_call"}
              /\ pc[u] \in {"set_write", "set_call"} )

\* C6: on every device the writes of gpucore_state by set_cur_state exceed the
\* invocations of set_max_pp_num by exactly the calls that have written and
\* not yet invoked (none once the calls have returned); a call invokes the
\* setter at most once, only after its write, with
\* (unsigned int)(max_gpu_core_num - the value it wrote), and a call that has
\* returned invoked it if and only if it wrote.
SetterMatchesCommittedWrites ==
    /\ \A d \in Dev :
         unset[d] = Cardinality({t \in Thread : cdev[t] = d /\ pc[t] = "set_call"})
    /\ \A t \in Thread :
         op[t] = "set_cur"
         => /\ call[t].sets \in {0, 1}
            /\ (call[t].sets = 1 =>
                  /\ call[t].wrote # -1
                  /\ ~Freed(cdev[t]) =>
                       call[t].setarg =
                         ToUnsigned(max_gpu_core_num[cdev[t]] - call[t].wrote))
            /\ (pc[t] = "set_ret" => (call[t].sets = 1 <=> call[t].wrote # -1))

\* Two calls that overlapped on one device have both returned, each having
\* written its own value and invoked the setter for it; the value left in
\* gpucore_state is the other call's.
SetterMatchesCommittedWritesWitness ==
    \E t, u \in Thread :
        /\ t # u
        /\ cdev[t] = cdev[u]
        /\ pc[t] = "set_ret" /\ pc[u] = "set_ret"
        /\ call[t].sets = 1 /\ call[u].sets = 1
        /\ call[t].wrote # call[u].wrote
        /\ ~call[t].solo /\ ~call[u].solo
        /\ ~Freed(cdev[t])
        /\ gpucore_state[cdev[t]] = call[u].wrote
        /\ hw_num[cdev[t]] = call[t].setarg
        /\ unset[cdev[t]] = 0

\* C7: a request whose value (STOP bit aside) exceeds max_gpu_core_num returns
\* an error; gpucore_state never exceeds max_gpu_core_num and set_max_pp_num
\* never receives an argument outside 0..max_gpu_core_num.
RequestsAreValidated ==
    /\ \A d \in Dev :
         /\ gpucore_state[d] <= max_gpu_core_num[d]
         /\ hw_num[d] = -1 \/ hw_num[d] \in 0..max_gpu_core_num[d]
    /\ \A t \in Thread :
         (pc[t] = "set_ret" /\ call[t].passed /\ ~Freed(cdev[t])
            /\ ClearStop(arg[t]) > max_gpu_core_num[cdev[t]])
         => ret[t] # 0

\* C8: no two device objects that own an id at the same time own the same id.
UniqueLiveIds ==
    \A d, e \in Dev :
        (d # e /\ Holding(d) /\ Holding(e)) => id[d] # id[e]

\* Two devices are registered at once, with ids 0 and 1.
UniqueLiveIdsWitness ==
    \E d, e \in Dev :
        /\ life[d] = "registered" /\ life[e] = "registered"
        /\ id[d] = 0 /\ id[e] = 1
        /\ gpucore_idr = {0, 1}

\* C9: the idr holds exactly the ids of the device objects that own one, so a
\* registration that failed left none behind; and when gpucore_cooling_register
\* has returned an error its device object has been freed and is not known to
\* the thermal framework.
RegistrationFailureRollsBack ==
    /\ gpucore_idr = {id[d] : d \in {e \in Dev : Holding(e)}}
    /\ \A d \in Dev : life[d] \in {"freed_no_id", "freed_rejected"}
                        => d \notin thermal_cdevs
    /\ \A t \in Thread :
         (pc[t] = "reg_ret" /\ ret[t] # 0)
         => /\ ret[t] = -EINVAL
            /\ life[cdev[t]] \in {"freed_no_id", "freed_rejected"}

\* A registration the framework rejected has returned its error while the
\* idr is empty again: the id it had taken is free for the next allocation.
RegistrationFailureRollsBackWitness ==
    \E t \in Thread :
        /\ pc[t] = "reg_ret"
        /\ ret[t] = -EINVAL
        /\ life[cdev[t]] = "freed_rejected"
        /\ gpucore_idr = {}
        /\ \E e \in Dev : life[e] = "freed_no_id"

\* C10: a successful get_idr stores the smallest non-negative integer the idr
\* did not hold and adds exactly it to the idr; release_idr removes exactly
\* the id of its device; no other step changes the idr.
AllocatesSmallestFreeId ==
    [][ /\ \A t \in Thread :
            (pc[t] = "get_idr" /\ pc'[t] = "tcd_register")
            => LET r == id'[cdev[t]]
               IN  /\ r >= 0
                   /\ r \notin gpucore_idr
                   /\ \A j \in 0..(r - 1) : j \in gpucore_idr
                   /\ gpucore_idr' = gpucore_idr \cup {r}
        /\ \A t \in Thread :
            (pc[t] = "release_idr" /\ pc'[t] = "kfree")
            => /\ id[cdev[t]] \in gpucore_idr
               /\ gpucore_idr' = gpucore_idr \ {id[cdev[t]]}
        /\ (\A t \in Thread :
               ~(pc[t] = "get_idr" /\ pc'[t] = "tcd_register")
               /\ ~(pc[t] = "release_idr" /\ pc'[t] = "kfree"))
           => gpucore_idr' = gpucore_idr
      ]_vars

\* Ids 0 and 1 were allocated, 0 was released by an unregistration while 1
\* stayed held, and only 0 is back in the pool.
AllocatesSmallestFreeIdWitness ==
    \E d, e \in Dev :
        /\ life[d] = "freed"
        /\ life[e] = "registered"
        /\ id[e] = 1
        /\ gpucore_idr = {1}

\* C11: a gpucore_cooling_unregister call on NULL, or on a handle that an
\* earlier call already unregistered, is a no-op: none of its steps changes
\* the idr or the set of devices the thermal framework knows, so it never
\* releases an id that was meanwhile issued to another live device.
RepeatedUnregisterIsNoOp ==
    [][ \A t \in Thread :
          ( /\ \/ op[t] = "unregister_again"
               \/ (op[t] = "unregister" /\ cdev[t] = NoDev)
            /\ pc'[t] # pc[t] )
          => /\ gpucore_idr' = gpucore_idr
             /\ thermal_cdevs' = thermal_cdevs
             /\ \A d \in Dev : Holding(d) => id[d] \in gpucore_idr'
      ]_vars

\* C12: max_gpu_core_num does not change from the allocation of a device to
\* its kfree, and a gpucore_get_max_state call returns 0 with that value in
\* *state whatever the stop flag and the current state are; the call leaves
\* the idr, gpucore_state, stop_flag and the hardware (no set_max_pp_num call)
\* as they were.
GetMaxStateIsConstant ==
    [][ /\ \A d \in Dev :
            ( /\ life[d] # "none"
              /\ life'[d] \notin {"freed", "freed_no_id", "freed_rejected"} )
            => max_gpu_core_num'[d] = max_gpu_core_num[d]
        /\ \A t \in Thread :
            (pc[t] = "idle" /\ pc'[t] = "get_ret" /\ op'[t] = "get_max")
            => /\ state'[t] = max_gpu_core_num[cdev'[t]]
               /\ ret'[t] = 0
               /\ UNCHANGED <<gpucore_idr, gpucore_state, stop_flag,
                              max_gpu_core_num, id, hw_num, unset>>
      ]_vars

\* get_max_state has returned the core count of a device that is stopped and
\* whose current state differs from it, after the hardware was set.
GetMaxStateIsConstantWitness ==
    \E t \in Thread :
        /\ pc[t] = "get_ret"
        /\ op[t] = "get_max"
        /\ stop_flag[cdev[t]]
        /\ hw_num[cdev[t]] # -1
        /\ gpucore_state[cdev[t]] # max_gpu_core_num[cdev[t]]
        /\ state[t] = max_gpu_core_num[cdev[t]]
        /\ state[t] > 0

\* C13: when gpucore_cooling_register has returned, its return value is a
\* valid handle of the device it registered (not NULL, not an error) if the
\* registration succeeded, and the error -EINVAL if it failed.
RegisterReturnsHandle ==
    \A t \in Thread :
        pc[t] = "reg_ret"
        => IF life[cdev[t]] \in {"freed_no_id", "freed_rejected"}
           THEN ret[t] = -EINVAL
           ELSE ret[t] # 0 /\ ret[t] # -EINVAL

\* C14: a thread that is about to write gpucore_state or to invoke
\* set_max_pp_num, or that has just invoked it, does not own
\* cooling_gpucore_lock: the hardware setter is never called under the mutex.
SetterCalledWithoutLock ==
    \A t \in Thread :
        pc[t] \in {"set_write", "set_call", "set_ret"}
        => cooling_gpucore_lock # t

\* One thread is at its set_max_pp_num call while another thread owns the
\* mutex.
SetterCalledWithoutLockWitness ==
    \E t, u \in Thread :
        /\ pc[t] = "set_call"
        /\ u # t
        /\ cooling_gpucore_lock = u

\* C15: once a gpucore_set_cur_state call carrying GPU_STOP has latched the
\* device and written gpucore_state, no other call on that device writes
\* gpucore_state or invokes set_max_pp_num, not even a call that had passed
\* the stop_flag test before the latch was set.
StopFreezesState ==
    [][ \A t, u \in Thread :
          ( /\ op[t] = "set_cur"
            /\ HasStop(arg[t])
            /\ call[t].passed
            /\ call[t].wrote # -1
            /\ u # t
            /\ cdev[u] = cdev[t] )
          => /\ ~(pc[u] = "set_write" /\ pc'[u] = "set_call")
             /\ ~(pc[u] = "set_call" /\ pc'[u] = "set_ret")
      ]_vars

\* C16: while no gpucore_set_cur_state call is in progress on a device on
\* which set_max_pp_num has been invoked at least once, the argument of the
\* last invocation is max_gpu_core_num - gpucore_state: the hardware and the
\* recorded state agree.
HardwareMatchesStateAtRest ==
    \A d \in Dev :
        ( /\ life[d] = "registered"
          /\ hw_num[d] # -1
          /\ \A t \in Thread : ~InCallback(t, d) )
        => hw_num[d] = ToUnsigned(max_gpu_core_num[d] - gpucore_state[d])

\* C17: the completion of gpucore_cooling_register does not undo a request
\* of the governor that took effect after thermal_cooling_device_register
\* returned: its last step leaves gpucore_state as it finds it, so the state
\* is 0 when registration completes only if no request wrote another value.
RegistrationKeepsRequests ==
    [][ \A t \in Thread :
          (pc[t] = "reg_finish" /\ pc'[t] = "reg_ret")
          => gpucore_state'[cdev[t]] = gpucore_state[cdev[t]]
      ]_vars

\* C18: stop_flag goes from 0 to 1 only in the critical section of a
\* gpucore_set_cur_state call that carries GPU_STOP and owns the mutex; a call
\* that finds the flag set at its test returns from there without writing
\* gpucore_state or invoking set_max_pp_num; so of the calls in progress on a
\* device at most one carrying GPU_STOP has passed the test.
OneCallLatches ==
    [][ /\ \A d \in Dev :
            (~stop_flag[d] /\ stop_flag'[d])
            => \E t \in Thread :
                 /\ pc[t] = "set_check" /\ pc'[t] = "set_write"
                 /\ cooling_gpucore_lock = t
                 /\ cdev[t] = d
                 /\ HasStop(arg[t])
        /\ \A t \in Thread :
            (pc[t] = "set_check" /\ pc'[t] # "set_check" /\ stop_flag[cdev[t]])
            => /\ pc'[t] = "set_ret"
               /\ ~call'[t].passed
               /\ ret'[t] = 0
               /\ UNCHANGED <<gpucore_state, stop_flag, hw_num, unset>>
        /\ \A t, u \in Thread :
            ( /\ t # u
              /\ op'[t] = "set_cur" /\ op'[u] = "set_cur"
              /\ cdev'[t] = cdev'[u]
              /\ HasStop(arg'[t]) /\ HasStop(arg'[u]) )
            => ~(call'[t].passed /\ call'[u].passed)
      ]_vars

\* Two calls carrying GPU_STOP overlapped on one device: one set the latch
\* and went on to the hardware, the other took the mutex after it and has
\* returned from the test without any effect.
OneCallLatchesWitness ==
    \E t, u \in Thread :
        /\ t # u
        /\ cdev[t] = cdev[u]
        /\ op[t] = "set_cur" /\ op[u] = "set_cur"
        /\ HasStop(arg[t]) /\ HasStop(arg[u])
        /\ call[t].passed /\ call[t].sets = 1
        /\ pc[u] = "set_ret"
        /\ ~call[u].passed /\ ~call[u].late
        /\ call[u].wrote = -1 /\ call[u].sets = 0

\* C19: cooling_gpucore_lock is owned only by a thread inside the critical
\* section of get_idr, release_idr or gpucore_set_cur_state, so every exit
\* path has released it; and under weak fairness every call of
\* gpucore_set_cur_state, gpucore_cooling_register and
\* gpucore_cooling_unregister that was entered eventually returns, so no
\* thread stays blocked on the mutex.
EveryCallReturns ==
    /\ [](\A t \in Thread :
            cooling_gpucore_lock = t
            <=> pc[t] \in {"get_idr", "release_idr", "set_check"})
    /\ \A t \in Thread : (pc[t] # "idle") ~> (pc[t] = "idle")

\* A thread waits for the mutex at the entry of gpucore_set_cur_state while
\* another thread owns it inside release_idr.
EveryCallReturnsWitness ==
    \E t, u \in Thread :
        /\ pc[t] = "set_lock"
        /\ pc[u] = "release_idr"
        /\ cooling_gpucore_lock = u

\* C20: no step of a gpucore_set_cur_state call on one device changes
\* gpucore_state, stop_flag, max_gpu_core_num or id of another device,
\* invokes another device's set_max_pp_num, or changes the idr.
DevicesAreIndependent ==
    [][ \A t \in Thread :
          (op'[t] = "set_cur" /\ pc'[t] # pc[t])
          => /\ gpucore_idr' = gpucore_idr
             /\ \A e \in Dev \ {cdev'[t]} :
                  /\ gpucore_state'[e] = gpucore_state[e]
                  /\ stop_flag'[e] = stop_flag[e]
                  /\ max_gpu_core_num'[e] = max_gpu_core_num[e]
                  /\ id'[e] = id[e]
                  /\ hw_num'[e] = hw_num[e]
                  /\ unset'[e] = unset[e]
      ]_vars

\* A call carrying GPU_STOP has stopped one device and set its hardware while
\* a second registered device is still in its initial state, not stopped and
\* its setter never invoked.
DevicesAreIndependentWitness ==
    \E t \in Thread, e \in Dev :
        /\ pc[t] = "set_ret"
        /\ e # cdev[t]
        /\ call[t].sets = 1
        /\ stop_flag[cdev[t]]
        /\ gpucore_state[cdev[t]] # 0
        /\ life[e] = "registered"
        /\ e \in thermal_cdevs
        /\ gpucore_state[e] = 0
        /\ ~stop_flag[e]
        /\ hw_num[e] = -1
        /\ id[e] # id[cdev[t]]

====
